---- MODULE Spec2Model ----
(***************************************************************************)
(* A model of narr_data.py: the timestamp decoder time_convert and the two *)
(* renderers weather_plot_hgt and weather_plot_dew, statement by           *)
(* statement, with the netCDF handles, the numpy lookups and the pyplot    *)
(* figure registry they act on.                                            *)
(*                                                                         *)
(* Units.  The file's time values are floating-point hours; a value is     *)
(* modelled as a whole number of 1/PerHour hours.  Wind is in mm/s, so the *)
(* division by 0.514 is a division by KnotDivisor/1000 and a value in      *)
(* knots is the reduced fraction mm/s over KnotDivisor.  Dewpoint is in    *)
(* hundredths of a kelvin, so 273.15 is KelvinOffset.                      *)
(* Indices are 0-based as in Python; sequences are 1-based as in TLA+.     *)
(***************************************************************************)
EXTENDS Integers, Sequences, FiniteSets, TLC

(* ----------------------------- bounds --------------------------------- *)
\* longest time axis
MaxT == 2
\* longest level axis
MaxL == 2
\* rows of the grid; the non-square grid has one column more
GridRows == 2
\* calls of a renderer in one behaviour
MaxCalls == 2
\* resolution of a time value: PerHour steps to the hour
PerHour == 2

(* ------------------------- program constants -------------------------- *)
EpochYear == 1800
KnotDivisor == 514
KelvinOffset == 27315

(* ------------------------- datetime arithmetic ------------------------ *)
\* datetime(1800, 1, 1)
start == [year |-> EpochYear, month |-> 1, day |-> 1, hour |-> 0, minute |-> 0, second |-> 0]

\* int(i) rounding down instead of toward zero
int_floor(n) == n \div PerHour

\* int(i): truncation toward zero of a value of n/PerHour hours
int(n) == IF n >= 0 THEN n \div PerHour ELSE -((-n) \div PerHour)

\* timedelta(hours=h), normalised: any number of days, 0 <= seconds < 86400
timedelta(h) == [days |-> h \div 24, seconds |-> (h % 24) * 3600]

IsLeap(y) == y % 4 = 0 /\ (y % 100 # 0 \/ y % 400 = 0)

\* days before 1 January of year y, counted from 1 January of year 1
DaysBeforeYear(y) ==
    LET p == y - 1 IN p * 365 + p \div 4 - p \div 100 + p \div 400

DaysInMonth(y, m) ==
    IF m = 2 THEN (IF IsLeap(y) THEN 29 ELSE 28)
    ELSE IF m \in {4, 6, 9, 11} THEN 30 ELSE 31

\* days of year y before the first of month m
DaysBeforeMonth(y, m) ==
    <<0, 31, 59, 90, 120, 151, 181, 212, 243, 273, 304, 334>>[m]
    + (IF m > 2 /\ IsLeap(y) THEN 1 ELSE 0)

\* date.toordinal(): 1 January of year 1 is day 1
toordinal(dt) == DaysBeforeYear(dt.year) + DaysBeforeMonth(dt.year, dt.month) + dt.day

\* date.fromordinal(n): the year, month and day of day n
fromordinal(n) ==
    LET n0   == n - 1
        n400 == n0 \div 146097
        r400 == n0 % 146097
        n100 == r400 \div 36524
        r100 == r400 % 36524
        n4   == r100 \div 1461
        r4   == r100 % 1461
        n1   == r4 \div 365
        r1   == r4 % 365
        year == n400 * 400 + 1 + n100 * 100 + n4 * 4 + n1
        m0   == (r1 + 50) \div 32
        m    == IF DaysBeforeMonth(year, m0) > r1 THEN m0 - 1 ELSE m0
    IN  IF n1 = 4 \/ n100 = 4
        THEN [year |-> year - 1, month |-> 12, day |-> 31]
        ELSE [year |-> year, month |-> m, day |-> r1 - DaysBeforeMonth(year, m) + 1]

\* datetime + timedelta
DatetimePlus(dt, td) ==
    LET secs == dt.hour * 3600 + dt.minute * 60 + dt.second + td.seconds
        date == fromordinal(toordinal(dt) + td.days + secs \div 86400)
        rest == secs % 86400
    IN  [year |-> date.year, month |-> date.month, day |-> date.day,
         hour |-> rest \div 3600, minute |-> (rest % 3600) \div 60,
         second |-> rest % 60]

Pad2(n) == IF n < 10 THEN "0" \o ToString(n) ELSE ToString(n)

Pad4(n) ==
    IF n < 10 THEN "000" \o ToString(n)
    ELSE IF n < 100 THEN "00" \o ToString(n)
    ELSE IF n < 1000 THEN "0" \o ToString(n)
    ELSE ToString(n)

\* x.strftime('%Y-%m-%d %H:%M:%S')
strftime(x) ==
    Pad4(x.year) \o "-" \o Pad2(x.month) \o "-" \o Pad2(x.day) \o " " \o
    Pad2(x.hour) \o ":" \o Pad2(x.minute) \o ":" \o Pad2(x.second)

\* time_convert returning its strings last element first
time_convert_reversed(data) ==
    LET delta    == [i \in 1..Len(data) |-> timedelta(int(data[Len(data) + 1 - i]))]
        offset   == [i \in 1..Len(delta) |-> DatetimePlus(start, delta[i])]
        new_time == [i \in 1..Len(offset) |-> strftime(offset[i])]
    IN  new_time

\* time_convert(file), given file['time'][:].data
time_convert(data) ==
    LET delta    == [i \in 1..Len(data) |-> timedelta(int(data[i]))]
        offset   == [i \in 1..Len(delta) |-> DatetimePlus(start, delta[i])]
        new_time == [i \in 1..Len(offset) |-> strftime(offset[i])]
    IN  new_time


(* ------------------------------ arrays -------------------------------- *)
\* A numpy array is its shape and its values (nested sequences).
\* the 1-D array of the values v
Array1(v) == [shape |-> <<Len(v)>>, v |-> v]

\* the 2-D array of the rows v (at least one row)
Array2(v) == [shape |-> <<Len(v), Len(v[1])>>, v |-> v]

ndim(a) == Len(a.shape)

\* len(a)
len(a) == a.shape[1]

\* a[::2, ::2], defined for a 2-D array
EveryOther(a) ==
    Array2([y \in 1..((a.shape[1] + 1) \div 2) |->
               [x \in 1..((a.shape[2] + 1) \div 2) |-> a.v[2 * y - 1][2 * x - 1]]])

RECURSIVE GCD(_, _)
GCD(a, b) == IF b = 0 THEN a ELSE GCD(b, a % b)

Abs(n) == IF n < 0 THEN -n ELSE n

\* mm/s divided by 0.514: knots, as the reduced fraction mmps / KnotDivisor
Knots(mmps) ==
    LET g == GCD(Abs(mmps), KnotDivisor)
    IN  [num |-> mmps \div g, den |-> KnotDivisor \div g]

\* a / 0.514 on a 2-D array
ToKnots(a) ==
    Array2([y \in 1..a.shape[1] |-> [x \in 1..a.shape[2] |-> Knots(a.v[y][x])]])

\* the conversion to Celsius left out
CelsiusNoShift(k) == k

\* k - 273.15 on one value (hundredths of a degree)
Celsius(k) == k - KelvinOffset

\* a - 273.15 on a 2-D array
ToCelsius(a) ==
    Array2([y \in 1..a.shape[1] |-> [x \in 1..a.shape[2] |-> Celsius(a.v[y][x])]])

RECURSIVE Matches(_, _, _)
\* np.where(seq == value)[0]: the 0-based positions of the matches from
\* position i on, ascending
Matches(seq, value, i) ==
    IF i > Len(seq) THEN <<>>
    ELSE IF seq[i] = value THEN <<i - 1>> \o Matches(seq, value, i + 1)
    ELSE Matches(seq, value, i + 1)

RECURSIVE MatchesDown(_, _, _)
MatchesDown(seq, value, i) ==
    IF i < 1 THEN <<>>
    ELSE IF seq[i] = value THEN <<i - 1>> \o MatchesDown(seq, value, i - 1)
    ELSE MatchesDown(seq, value, i - 1)

\* the matches last position first, as a scan from the end gives them
np_where_descending(seq, value) == MatchesDown(seq, value, Len(seq))

np_where(seq, value) == Matches(seq, value, 1)

(* ------------------------------- files -------------------------------- *)
\* time values of the files the renderers read: 1/PerHour h and 3 h
RenderOffsets == {1, 3 * PerHour}

Levels == {500, 850}

\* a square grid and a grid with one column more
GridShapes == {<<GridRows, GridRows>>, <<GridRows, GridRows + 1>>}

SeqsUpTo(S, n) == UNION {[1..k -> S] : k \in 0..n}

\* The three files of one call.  time, level, lat and lon are the u-wind
\* file's; ushape, vshape and tshape are the (lat, lon) grids of the data
\* variables of the u-wind, v-wind and third file; coord_ndim is the rank of
\* the u-wind file's lat and lon variables.
FileSets ==
    [time : SeqsUpTo(RenderOffsets, MaxT), level : SeqsUpTo(Levels, MaxL),
     ushape : GridShapes, vshape : GridShapes, tshape : GridShapes,
     coord_ndim : {1, 2}]

\* the value a data variable holds at [t][l][y][x] (t, l 0-based)
VarValue(name, t, l, y, x) ==
    LET base == CASE name = "uwnd" -> 5140
                  [] name = "vwnd" -> -2570
                  [] name = "hgt"  -> 5900
                  [] name = "dpt"  -> 29000
    IN  base + 1000 * t + 100 * l + 10 * y + x

\* file[name][t][l][:][:].data
Slice(shape, name, t, l) ==
    Array2([y \in 1..shape[1] |-> [x \in 1..shape[2] |-> VarValue(name, t, l, y, x)]])

\* uwnd_file['lat'][:].data
LatOf(f) ==
    IF f.coord_ndim = 2
    THEN Array2([y \in 1..f.ushape[1] |-> [x \in 1..f.ushape[2] |-> 3000 + 10 * y + x]])
    ELSE Array1([y \in 1..f.ushape[1] |-> 3000 + 10 * y])

\* uwnd_file['lon'][:].data
LonOf(f) ==
    IF f.coord_ndim = 2
    THEN Array2([y \in 1..f.ushape[1] |-> [x \in 1..f.ushape[2] |-> -9000 + y + 10 * x]])
    ELSE Array1([x \in 1..f.ushape[2] |-> -9000 + 10 * x])

\* the dates and levels a caller asks for
Dates == {"1800-01-01 00:00:00", "1800-01-01 03:00:00"}

Extent == <<-89, -85, 31, 36>>

CallArgs ==
    [fn : {"hgt"}, date : Dates, level : Levels, extent : {<<>>, <<Extent>>}]
    \cup [fn : {"dew"}, date : Dates, level : {0}, extent : {<<>>, <<Extent>>}]

(* ------------------------------- errors ------------------------------- *)
Error(type, msg) == [type |-> type, msg |-> msg]

\* Dataset(path) on a path that cannot be opened
OpenError == Error("OSError", "No such file or directory")

\* np.where(...)[0][0] with no match
IndexError0 == Error("IndexError", "index 0 is out of bounds for axis 0 with size 0")

\* a read or a close on a closed Dataset
ClosedError == Error("RuntimeError", "NetCDF: Not a valid ID")

\* lon[::2, ::2] on a 1-D array
TooManyIndices == Error("IndexError", "too many indices for array")

\* contourf or barbs on arrays whose shapes disagree
ShapeError == Error("TypeError", "shapes of the arguments do not match")

\* any other failure inside matplotlib, cartopy or metpy
BackendError == Error("Exception", "plotting backend")

\* what a failed lookup raises: the error of line 73 and of line 74
RaisedBy(lookup) == IndexError0

NoError == Error("", "")

(* ------------------------------- state -------------------------------- *)
VARIABLES
    tcIn,       \* the time array handed to time_convert on its own
    tcOut,      \* <<>> or <<the list it returned>>
    files,      \* the three files on disk
    args,       \* the arguments of the calls
    calls,      \* calls started
    pc,         \* the statement the call is at, or idle, returned, raised
    handle,     \* each Dataset of the call: unopened, open or closed
    closes,     \* close() calls made on each Dataset of the call
    openlog,    \* the Datasets the call opened, in order
    staleRead,  \* a variable was read from a Dataset that was not open
    loc,        \* the call's local variables
    figs,       \* figures pyplot has created so far
    ax,         \* the number of the figure the call created, 0 before
    plotlog,    \* the plotting calls made on it
    result,     \* <<>> or <<what the call returned>>
    prev,       \* <<>> or <<what an earlier call returned>>
    err,        \* the exception that ended the call
    cause       \* the statement kind that raised it

vars == <<tcIn, tcOut, files, args, calls, pc, handle, closes, openlog,
          staleRead, loc, figs, ax, plotlog, result, prev, err, cause>>

tcVars == <<tcIn, tcOut>>

callVars == <<files, args, calls, pc, handle, closes, openlog, staleRead, loc,
              figs, ax, plotlog, result, prev, err, cause>>

Handles == {"uwnd", "vwnd", "third"}

\* the locals of a call that has not assigned any
NoLocals ==
    [time |-> <<>>, time_where |-> -1, level_where |-> -1, uwnd |-> <<>>,
     vwnd |-> <<>>, fld |-> <<>>, lat |-> <<>>, lon |-> <<>>, figs0 |-> 0]

NoArgs == [fn |-> "", date |-> "", level |-> 0, extent |-> <<>>]

NoFiles ==
    [time |-> <<>>, level |-> <<>>, ushape |-> <<GridRows, GridRows>>,
     vshape |-> <<GridRows, GridRows>>, tshape |-> <<GridRows, GridRows>>,
     coord_ndim |-> 2]

IdleCall ==
    /\ args = NoArgs
    /\ calls = 0
    /\ pc = "idle"
    /\ handle = [h \in Handles |-> "unopened"]
    /\ closes = [h \in Handles |-> 0]
    /\ openlog = <<>>
    /\ staleRead = FALSE
    /\ loc = NoLocals
    /\ figs = 0
    /\ ax = 0
    /\ plotlog = <<>>
    /\ result = <<>>
    /\ prev = <<>>
    /\ err = NoError
    /\ cause = "none"

Init ==
    /\ tcIn = <<>>
    /\ tcOut = <<>>
    /\ files \in FileSets
    /\ IdleCall

(* ---------------------------- control flow ---------------------------- *)
\* the figure created before the files are closed
StmtsFigFirst(fn) ==
    IF fn = "hgt"
    THEN <<"openU", "openV", "openT", "conv", "twhere", "lwhere", "read",
           "fig", "closeU", "closeV", "closeT",
           "contour", "barbs", "features", "cbar", "ret">>
    ELSE <<"openU", "openV", "openT", "conv", "twhere", "read",
           "fig", "closeU", "closeV", "closeT",
           "contour", "barbs", "features", "cbar", "ret">>

\* the u-wind file closed right after its time axis is decoded
StmtsCloseFirst(fn) ==
    IF fn = "hgt"
    THEN <<"openU", "openV", "openT", "conv", "closeU", "twhere", "lwhere",
           "read", "closeV", "closeT",
           "fig", "contour", "barbs", "features", "cbar", "ret">>
    ELSE <<"openU", "openV", "openT", "conv", "closeU", "twhere", "read",
           "closeV", "closeT",
           "fig", "contour", "barbs", "features", "cbar", "ret">>

\* the files closed before the slices are read
StmtsCloseBeforeRead(fn) ==
    IF fn = "hgt"
    THEN <<"openU", "openV", "openT", "conv", "twhere", "lwhere",
           "closeU", "closeV", "closeT", "read",
           "fig", "contour", "barbs", "features", "cbar", "ret">>
    ELSE <<"openU", "openV", "openT", "conv", "twhere",
           "closeU", "closeV", "closeT", "read",
           "fig", "contour", "barbs", "features", "cbar", "ret">>

\* the statements of a renderer, in program order
Stmts(fn) ==
    IF fn = "hgt"
    THEN <<"openU", "openV", "openT", "conv", "twhere", "lwhere", "read",
           "closeU", "closeV", "closeT",
           "fig", "contour", "barbs", "features", "cbar", "ret">>
    ELSE <<"openU", "openV", "openT", "conv", "twhere", "read",
           "closeU", "closeV", "closeT",
           "fig", "contour", "barbs", "features", "cbar", "ret">>

\* the statement after point p of fn
Succ(fn, p) ==
    LET s == Stmts(fn)
        i == CHOOSE k \in 1..Len(s) : s[k] = p
    IN  s[i + 1]

HandleOf(p) ==
    CASE p \in {"openU", "closeU"} -> "uwnd"
      [] p \in {"openV", "closeV"} -> "vwnd"
      [] p \in {"openT", "closeT"} -> "third"

Raise(e, c) ==
    /\ pc' = "raised"
    /\ err' = e
    /\ cause' = c

Step ==
    /\ pc' = Succ(args.fn, pc)
    /\ UNCHANGED <<err, cause>>


(* ------------------------------ pyplot -------------------------------- *)
\* the current figure taken again when there is one (plt.gcf)
ReuseFigure(n) == IF n = 0 THEN 1 ELSE n

\* plt.subplots: the number of the figure it creates, n figures existing
NewFigure(n) == n + 1

\* contourf taking any shapes
ContourUnchecked(x, y, z) == TRUE

\* contourf(x, y, z): its check of the shapes of its arguments
ContourOK(x, y, z) ==
    /\ ndim(z) = 2
    /\ z.shape[1] >= 2
    /\ z.shape[2] >= 2
    /\ \/ ndim(x) = 1 /\ ndim(y) = 1 /\ len(x) = z.shape[2] /\ len(y) = z.shape[1]
       \/ ndim(x) = 2 /\ ndim(y) = 2 /\ x.shape = z.shape /\ y.shape = z.shape

\* barbs(x, y, u, v): its check of the shapes of its arguments
BarbsOK(x, y, u, v) == x.shape = y.shape /\ u.shape = x.shape /\ v.shape = x.shape

Plot(op, data) == [op |-> op, data |-> data]

(* ------------------------------ actions ------------------------------- *)
\* a first call of a renderer
Call(a) ==
    /\ pc = "idle"
    /\ calls = 0
    /\ args' = a
    /\ calls' = 1
    /\ pc' = Stmts(a.fn)[1]
    /\ loc' = [NoLocals EXCEPT !.figs0 = figs]
    /\ UNCHANGED <<tcVars, files, handle, closes, openlog, staleRead, figs, ax,
                   plotlog, result, prev, err, cause>>

\* the same call once more, after the last one returned
CallAgain ==
    /\ pc = "returned"
    /\ calls < MaxCalls
    /\ calls' = calls + 1
    /\ pc' = Stmts(args.fn)[1]
    /\ handle' = [h \in Handles |-> "unopened"]
    /\ closes' = [h \in Handles |-> 0]
    /\ openlog' = <<>>
    /\ loc' = [NoLocals EXCEPT !.figs0 = figs]
    /\ ax' = 0
    /\ plotlog' = <<>>
    /\ result' = <<>>
    /\ prev' = result
    /\ err' = NoError
    /\ cause' = "none"
    /\ UNCHANGED <<tcVars, files, args, staleRead, figs>>

\* lines 66-68, 143-145: Dataset(path)
Open ==
    /\ pc \in {"openU", "openV", "openT"}
    /\ \/ /\ handle' = [handle EXCEPT ![HandleOf(pc)] = "open"]
          /\ openlog' = Append(openlog, HandleOf(pc))
          /\ Step
       \/ /\ Raise(OpenError, "open")
          /\ UNCHANGED <<handle, openlog>>
    /\ UNCHANGED <<tcVars, files, args, calls, closes, staleRead, loc, figs, ax,
                   plotlog, result, prev>>

\* lines 69, 146: time = time_convert(uwnd_file)
Conv ==
    /\ pc = "conv"
    /\ IF handle["uwnd"] = "open"
       THEN /\ loc' = [loc EXCEPT !.time = time_convert(files.time)]
            /\ Step
            /\ UNCHANGED staleRead
       ELSE /\ staleRead' = TRUE
            /\ Raise(ClosedError, "read")
            /\ UNCHANGED loc
    /\ UNCHANGED <<tcVars, files, args, calls, handle, closes, openlog, figs, ax,
                   plotlog, result, prev>>

\* lines 73, 149: time_where = np.where(np.array(time) == date)[0][0]
TimeWhere ==
    /\ pc = "twhere"
    /\ LET m == np_where(loc.time, args.date)
       IN  IF m = <<>>
           THEN Raise(RaisedBy("date"), "date") /\ UNCHANGED loc
           ELSE loc' = [loc EXCEPT !.time_where = m[1]] /\ Step
    /\ UNCHANGED <<tcVars, files, args, calls, handle, closes, openlog, staleRead,
                   figs, ax, plotlog, result, prev>>

\* line 74: level_where = np.where(uwnd_file['level'][:] == level)[0][0]
LevelWhere ==
    /\ pc = "lwhere"
    /\ IF handle["uwnd"] # "open"
       THEN /\ staleRead' = TRUE
            /\ Raise(ClosedError, "read")
            /\ UNCHANGED loc
       ELSE /\ UNCHANGED staleRead
            /\ LET m == np_where(files.level, args.level)
               IN  IF m = <<>>
                   THEN Raise(RaisedBy("level"), "level") /\ UNCHANGED loc
                   ELSE loc' = [loc EXCEPT !.level_where = m[1]] /\ Step
    /\ UNCHANGED <<tcVars, files, args, calls, handle, closes, openlog, figs, ax,
                   plotlog, result, prev>>

\* lines 75-81, 150-156: the three slices, lat, lon, and the winds in knots
Read ==
    /\ pc = "read"
    /\ IF \E h \in Handles : handle[h] # "open"
       THEN /\ staleRead' = TRUE
            /\ Raise(ClosedError, "read")
            /\ UNCHANGED loc
       ELSE /\ UNCHANGED staleRead
            /\ LET t == loc.time_where
                   l == IF args.fn = "hgt" THEN loc.level_where ELSE 0
                   third == IF args.fn = "hgt" THEN "hgt" ELSE "dpt"
               IN  loc' = [loc EXCEPT
                             !.uwnd = <<ToKnots(Slice(files.ushape, "uwnd", t, l))>>,
                             !.vwnd = <<ToKnots(Slice(files.vshape, "vwnd", t, l))>>,
                             !.fld  = <<Slice(files.tshape, third, t, l)>>,
                             !.lat  = <<LatOf(files)>>,
                             !.lon  = <<LonOf(files)>>]
            /\ Step
    /\ UNCHANGED <<tcVars, files, args, calls, handle, closes, openlog, figs, ax,
                   plotlog, result, prev>>

\* lines 83-85, 158-160: file.close()
Close ==
    /\ pc \in {"closeU", "closeV", "closeT"}
    /\ closes' = [closes EXCEPT ![HandleOf(pc)] = @ + 1]
    /\ IF handle[HandleOf(pc)] = "open"
       THEN /\ handle' = [handle EXCEPT ![HandleOf(pc)] = "closed"]
            /\ Step
       ELSE /\ Raise(ClosedError, "close")
            /\ UNCHANGED handle
    /\ UNCHANGED <<tcVars, files, args, calls, openlog, staleRead, loc, figs, ax,
                   plotlog, result, prev>>

\* lines 92, 167: fig, ax = plt.subplots(...)
Fig ==
    /\ pc = "fig"
    /\ figs' = NewFigure(figs)
    /\ ax' = NewFigure(figs)
    /\ Step
    /\ UNCHANGED <<tcVars, files, args, calls, handle, closes, openlog, staleRead,
                   loc, plotlog, result, prev>>

\* lines 93-96, 168-171: set_extent when an extent is given, then contourf
Contour ==
    /\ pc = "contour"
    /\ LET z == IF args.fn = "hgt" THEN loc.fld[1] ELSE ToCelsius(loc.fld[1])
           e == IF args.extent = <<>> THEN <<>>
                ELSE <<Plot("set_extent", <<>>)>>
       IN  IF ContourOK(loc.lon[1], loc.lat[1], z)
           THEN /\ plotlog' = plotlog \o e \o <<Plot("contourf", <<z>>)>>
                /\ Step
           ELSE /\ plotlog' = plotlog \o e
                /\ Raise(ShapeError, "plot")
    /\ UNCHANGED <<tcVars, files, args, calls, handle, closes, openlog, staleRead,
                   loc, figs, ax, result, prev>>

\* lines 97-98, 172-173: barbs on every other grid point
Barbs ==
    /\ pc = "barbs"
    /\ IF ndim(loc.lon[1]) < 2 \/ ndim(loc.lat[1]) < 2
       THEN Raise(TooManyIndices, "plot") /\ UNCHANGED plotlog
       ELSE IF BarbsOK(EveryOther(loc.lon[1]), EveryOther(loc.lat[1]),
                       EveryOther(loc.uwnd[1]), EveryOther(loc.vwnd[1]))
       THEN /\ plotlog' = Append(plotlog, Plot("barbs", <<>>))
            /\ Step
       ELSE Raise(ShapeError, "plot") /\ UNCHANGED plotlog
    /\ UNCHANGED <<tcVars, files, args, calls, handle, closes, openlog, staleRead,
                   loc, figs, ax, result, prev>>

\* lines 99-106, 174-181: the eight add_feature calls
Features ==
    /\ pc = "features"
    /\ plotlog' = Append(plotlog, Plot("add_feature", <<>>))
    /\ Step
    /\ UNCHANGED <<tcVars, files, args, calls, handle, closes, openlog, staleRead,
                   loc, figs, ax, result, prev>>

\* lines 107-108, 182-183: the colour bar and its label
Cbar ==
    /\ pc = "cbar"
    /\ plotlog' = Append(plotlog, Plot("colorbar", <<>>))
    /\ Step
    /\ UNCHANGED <<tcVars, files, args, calls, handle, closes, openlog, staleRead,
                   loc, figs, ax, result, prev>>

\* lines 110, 185: return hgt, ax / return dew, ax
Return ==
    /\ pc = "ret"
    /\ result' = <<[field |-> loc.fld[1], ax |-> ax]>>
    /\ pc' = "returned"
    /\ UNCHANGED <<tcVars, files, args, calls, handle, closes, openlog, staleRead,
                   loc, figs, ax, plotlog, prev, err, cause>>

\* lines 92-108, 167-183: a plotting call fails inside the backend (a colour
\* map or colour it does not know, map data it cannot load)
PlotRaise ==
    /\ pc \in {"fig", "contour", "barbs", "features", "cbar"}
    /\ Raise(BackendError, "plot")
    /\ UNCHANGED <<tcVars, files, args, calls, handle, closes, openlog, staleRead,
                   loc, figs, ax, plotlog, result, prev>>

Next ==
    \/ \E a \in CallArgs : Call(a)
    \/ CallAgain
    \/ Open
    \/ Conv
    \/ TimeWhere
    \/ LevelWhere
    \/ Read
    \/ Close
    \/ Fig
    \/ Contour
    \/ Barbs
    \/ Features
    \/ Cbar
    \/ Return
    \/ PlotRaise

Spec == Init /\ [][Next]_vars

(* ----------------------- time_convert on its own ---------------------- *)
\* time values handed to time_convert: around the epoch, the end of a day,
\* the end of February 1800, the end of 1800, and 2020-07-19 18:00
TCOffsets ==
    {-(PerHour + 1), -1, 0, 1, 23 * PerHour + 1, 1416 * PerHour,
     8760 * PerHour, 8760 * PerHour + 1, 1933290 * PerHour}

InitTC ==
    /\ tcIn \in SeqsUpTo(TCOffsets, MaxT)
    /\ tcOut = <<>>
    /\ files = NoFiles
    /\ IdleCall

TimeConvert ==
    /\ tcOut = <<>>
    /\ tcOut' = <<time_convert(tcIn)>>
    /\ UNCHANGED <<tcIn, callVars>>

NextTC == TimeConvert

SpecTC == InitTC /\ [][NextTC]_vars


(* ------------------------ vocabulary of the claims -------------------- *)
AllHandles(st) == \A h \in Handles : handle[h] = st

Present(seq, v) == \E k \in 1..Len(seq) : seq[k] = v

\* i is the 0-based position of the first entry of seq equal to v
IsFirstMatch(seq, v, i) ==
    /\ i \in 0..(Len(seq) - 1)
    /\ seq[i + 1] = v
    /\ \A k \in 1..i : seq[k] # v

\* the statements before and at the date lookup, and up to the level lookup
UpToDate == {"idle", "openU", "openV", "openT", "conv", "twhere"}

UpToLevel == UpToDate \cup {"lwhere"}

\* the call got past its opens and the date it asks for is on no entry of
\* the decoded time axis
DateMissed ==
    /\ pc \notin UpToDate
    /\ cause # "open"
    /\ ~Present(time_convert(files.time), args.date)

\* weather_plot_hgt found the date and the level is on no entry of the
\* level axis
LevelMissed ==
    /\ args.fn = "hgt"
    /\ pc \notin UpToLevel
    /\ cause # "open"
    /\ Present(time_convert(files.time), args.date)
    /\ ~Present(files.level, args.level)

\* the lookups a renderer makes
LookupsOf(fn) == IF fn = "hgt" THEN {"date", "level"} ELSE {"date"}

\* h is n/PerHour hours truncated toward zero
IsTrunc(n, h) ==
    IF h > 0 THEN h * PerHour <= n /\ n < (h + 1) * PerHour
    ELSE IF h < 0 THEN (h - 1) * PerHour < n /\ n <= h * PerHour
    ELSE -PerHour < n /\ n < PerHour

\* 1800-01-01 00:00:00 plus h hours, as the calendar has it
Calendar ==
    {<<-1, "1799-12-31 23:00:00">>, <<0, "1800-01-01 00:00:00">>,
     <<23, "1800-01-01 23:00:00">>, <<1416, "1800-03-01 00:00:00">>,
     <<8760, "1801-01-01 00:00:00">>, <<8761, "1801-01-01 01:00:00">>,
     <<1933290, "2020-07-19 18:00:00">>}

(* ------------------------------- claims ------------------------------- *)
\* C1, as stated: the array weather_plot_dew returns holds, at every grid
\* point, the dew file's value at the matched time index minus 273.15.
C1_ReturnsCelsius ==
    (pc = "returned" /\ args.fn = "dew") =>
        \A y \in 1..files.tshape[1], x \in 1..files.tshape[2] :
            result[1].field.v[y][x]
                = VarValue("dpt", loc.time_where, 0, y, x) - KelvinOffset

\* C1, amended: the array weather_plot_dew returns holds the dew file's
\* value at the first matching time index unchanged (kelvin); the values
\* handed to contourf are those values minus 273.15.
C1_ReturnsKelvinPlotsCelsius ==
    (pc = "returned" /\ args.fn = "dew") =>
        /\ IsFirstMatch(time_convert(files.time), args.date, loc.time_where)
        /\ result[1].field.shape = files.tshape
        /\ \A y \in 1..files.tshape[1], x \in 1..files.tshape[2] :
              /\ result[1].field.v[y][x] = VarValue("dpt", loc.time_where, 0, y, x)
              /\ \E k \in 1..Len(plotlog) :
                    /\ plotlog[k].op = "contourf"
                    /\ plotlog[k].data[1].v[y][x]
                          = VarValue("dpt", loc.time_where, 0, y, x) - KelvinOffset

C1_Witness == pc = "returned" /\ args.fn = "dew" /\ loc.time_where = 1

\* C2, as stated: a date on no entry of the decoded time axis, or in
\* weather_plot_hgt a level on no entry of the level axis, ends the call with
\* an error that tells the failed lookup from the other one, with no result,
\* no figure and no plotting call.
C2_DistinguishableError ==
    (DateMissed \/ LevelMissed) =>
        /\ pc = "raised"
        /\ result = <<>>
        /\ ax = 0 /\ figs = loc.figs0 /\ plotlog = <<>>
        /\ err # NoError
        /\ \A c \in LookupsOf(args.fn) \ {cause} : err # RaisedBy(c)

\* C3: once a call has reached its first plotting statement, all three
\* Datasets are closed, and they stay closed whether it then returns or a
\* plotting call raises.
C3_ClosedBeforePlotting ==
    (\/ pc \in {"fig", "contour", "barbs", "features", "cbar", "ret", "returned"}
     \/ cause = "plot" \/ ax # 0 \/ plotlog # <<>> \/ figs # loc.figs0)
        => AllHandles("closed")

C3_Witness == cause = "plot" /\ ax # 0 /\ plotlog # <<>> /\ AllHandles("closed")

\* C4: time_convert returns one string per element of the time array, the
\* i-th being the decoding of the i-th element; an empty array gives an empty
\* list.
C4_OnePerElementInOrder ==
    tcOut # <<>> =>
        /\ Len(tcOut[1]) = Len(tcIn)
        /\ \A i \in 1..Len(tcIn) : tcOut[1][i] = time_convert(<<tcIn[i]>>)[1]
        /\ (tcIn = <<>> => tcOut[1] = <<>>)

C4_Witness ==
    /\ tcOut # <<>>
    /\ Len(tcIn) = 2
    /\ tcIn[1] = 8760 * PerHour
    /\ tcIn[2] = 0
    /\ tcOut[1][1] # tcOut[1][2]

\* C5: each string time_convert produces is 1800-01-01 00:00:00 plus the
\* value truncated to whole hours, written YYYY-MM-DD HH:MM:SS; 0 gives
\* 1800-01-01 00:00:00 and 8760 gives 1801-01-01 00:00:00; two values with the
\* same truncation give the same string.
C5_EpochPlusTruncatedHours ==
    tcOut # <<>> =>
        /\ \A i \in 1..Len(tcIn) :
              \E c \in Calendar : IsTrunc(tcIn[i], c[1]) /\ tcOut[1][i] = c[2]
        /\ \A i \in 1..Len(tcIn) :
              /\ tcIn[i] = 0 => tcOut[1][i] = "1800-01-01 00:00:00"
              /\ tcIn[i] = 8760 * PerHour => tcOut[1][i] = "1801-01-01 00:00:00"
        /\ \A i, j \in 1..Len(tcIn) :
              (\E h \in {c[1] : c \in Calendar} :
                    IsTrunc(tcIn[i], h) /\ IsTrunc(tcIn[j], h))
                 => tcOut[1][i] = tcOut[1][j]

C5_Witness ==
    /\ tcOut # <<>>
    /\ Len(tcIn) = 2
    /\ tcIn[1] = 8760 * PerHour + 1
    /\ tcIn[2] = -1
    /\ tcOut[1] = <<"1801-01-01 00:00:00", "1800-01-01 00:00:00">>

C8_FirstMatchSameSlice ==
    (args.fn = "hgt" /\ loc.fld # <<>>) =>
        LET i == loc.time_where
            j == loc.level_where
        IN  /\ IsFirstMatch(time_convert(files.time), args.date, i)
            /\ IsFirstMatch(files.level, args.level, j)
            /\ \A y \in 1..files.ushape[1], x \in 1..files.ushape[2] :
                  loc.uwnd[1].v[y][x].num * KnotDivisor
                     = loc.uwnd[1].v[y][x].den * VarValue("uwnd", i, j, y, x)
            /\ \A y \in 1..files.vshape[1], x \in 1..files.vshape[2] :
                  loc.vwnd[1].v[y][x].num * KnotDivisor
                     = loc.vwnd[1].v[y][x].den * VarValue("vwnd", i, j, y, x)
            /\ \A y \in 1..files.tshape[1], x \in 1..files.tshape[2] :
                  /\ loc.fld[1].v[y][x] = VarValue("hgt", i, j, y, x)
                  /\ pc = "returned" => result[1].field.v[y][x] = VarValue("hgt", i, j, y, x)

C8_Witness ==
    /\ pc = "returned" /\ args.fn = "hgt"
    /\ Len(np_where(time_convert(files.time), args.date)) = 2
    /\ Len(np_where(files.level, args.level)) = 2

\* C9: a call whose date lookup, or in weather_plot_hgt whose level lookup,
\* finds no match has ended with that lookup's error, all three Datasets
\* open and no close() made.
C9_LookupFailureLeaksAll ==
    /\ DateMissed => pc = "raised" /\ cause = "date"
    /\ LevelMissed => pc = "raised" /\ cause = "level"
    /\ cause \in {"date", "level"} =>
          /\ pc = "raised"
          /\ AllHandles("open")
          /\ \A h \in Handles : closes[h] = 0

C9_Witness == LevelMissed /\ cause = "level" /\ AllHandles("open")

\* C10: the Datasets are opened in the order u-wind, v-wind, third; when an
\* open fails, those opened before it are open when the error leaves the
\* call; nothing is read from a Dataset that is not open; no Dataset is
\* closed more than once.
C10_OpenOrderNoStaleRead ==
    /\ \E n \in 0..3 : openlog = SubSeq(<<"uwnd", "vwnd", "third">>, 1, n)
    /\ \A h \in Handles :
          handle[h] # "unopened" <=> \E k \in 1..Len(openlog) : openlog[k] = h
    /\ cause = "open" =>
          /\ pc = "raised"
          /\ \A k \in 1..Len(openlog) : handle[openlog[k]] = "open"
          /\ \A h \in Handles : closes[h] = 0
    /\ ~staleRead
    /\ cause \notin {"read", "close"}
    /\ \A h \in Handles : closes[h] <= 1

C10_Witness ==
    /\ cause = "open"
    /\ openlog = <<"uwnd", "vwnd">>
    /\ handle["uwnd"] = "open" /\ handle["vwnd"] = "open"


====
